---- MODULE Spec2Model ----
(***************************************************************************)
(* Model of the net upload server (app/main.py): the handler               *)
(* create_upload_net validates the uploaded file name, writes the payload  *)
(* gzip-compressed under exclusive create, reads it back, checks the       *)
(* SHA-256 prefix embedded in the name and removes the file on failure.    *)
(*                                                                         *)
(* Bytes are integers 0..255, byte strings are sequences of bytes, names   *)
(* are sequences of one-character strings.  32-bit words are pairs         *)
(* <<hi, lo>> of 16-bit halves so that no intermediate value leaves the    *)
(* range of the model checker's integers.                                  *)
(***************************************************************************)
EXTENDS Integers, Sequences, FiniteSets, TLC

\* uploaded payloads: b"" and b"abc"
Payloads == {<<>>, <<97, 98, 99>>}

(***************************************************************************)
(* 32-bit word arithmetic on <<hi, lo>> halves.                            *)
(***************************************************************************)
Half == 65536

RECURSIVE Xor2(_, _)
Xor2(a, b) ==
  IF a = 0 THEN b
  ELSE IF b = 0 THEN a
  ELSE ((a + b) % 2) + 2 * Xor2(a \div 2, b \div 2)

RECURSIVE And2(_, _)
And2(a, b) ==
  IF a = 0 \/ b = 0 THEN 0
  ELSE ((a % 2) * (b % 2)) + 2 * And2(a \div 2, b \div 2)

WXor(x, y) == <<Xor2(x[1], y[1]), Xor2(x[2], y[2])>>

WXor3(x, y, z) == WXor(WXor(x, y), z)

WAnd(x, y) == <<And2(x[1], y[1]), And2(x[2], y[2])>>

WNot(x) == <<Half - 1 - x[1], Half - 1 - x[2]>>

WAdd(x, y) ==
  LET lo == x[2] + y[2]
  IN  <<(x[1] + y[1] + (lo \div Half)) % Half, lo % Half>>

RECURSIVE RotR(_, _)
RotR(x, n) ==
  IF n >= 16 THEN RotR(<<x[2], x[1]>>, n - 16)
  ELSE LET m == 2 ^ n
       IN  <<(x[1] \div m) + (x[2] % m) * (Half \div m),
             (x[2] \div m) + (x[1] % m) * (Half \div m)>>

ShR(x, n) ==
  LET m == 2 ^ n
  IN  <<x[1] \div m, (x[2] \div m) + (x[1] % m) * (Half \div m)>>

(***************************************************************************)
(* hashlib.sha256: FIPS 180-4 SHA-256 over a byte sequence.                *)
(***************************************************************************)
Sha256K == <<
    <<17034, 12184>>, <<28983, 17553>>, <<46528, 64463>>, <<59829, 56229>>,
    <<14678, 49755>>, <<23025, 4593>>, <<37439, 33444>>, <<43804, 24277>>,
    <<55303, 43672>>, <<4739, 23297>>, <<9265, 34238>>, <<21772, 32195>>,
    <<29374, 23924>>, <<32990, 45566>>, <<39900, 1703>>, <<49563, 61812>>,
    <<58523, 27073>>, <<61374, 18310>>, <<4033, 40390>>, <<9228, 41420>>,
    <<11753, 11375>>, <<19060, 33962>>, <<23728, 43484>>, <<30457, 35034>>,
    <<38974, 20818>>, <<43057, 50797>>, <<45059, 10184>>, <<48985, 32711>>,
    <<50912, 3059>>, <<54695, 37191>>, <<1738, 25425>>, <<5161, 10599>>,
    <<10167, 2693>>, <<11803, 8504>>, <<19756, 28156>>, <<21304, 3347>>,
    <<25866, 29524>>, <<30314, 2747>>, <<33218, 51502>>, <<37490, 11397>>,
    <<41663, 59553>>, <<43034, 26187>>, <<49739, 35696>>, <<51052, 20899>>,
    <<53650, 59417>>, <<54937, 1572>>, <<62478, 13701>>, <<4202, 41072>>,
    <<6564, 49430>>, <<7735, 27656>>, <<10056, 30540>>, <<13488, 48309>>,
    <<14620, 3251>>, <<20184, 43594>>, <<23452, 51791>>, <<26670, 28659>>,
    <<29839, 33518>>, <<30885, 25455>>, <<33992, 30740>>, <<36039, 520>>,
    <<37054, 65530>>, <<42064, 27883>>, <<48889, 41975>>, <<50801, 30962>>
  >>

Sha256H0 == <<
    <<27145, 58983>>, <<47975, 44677>>, <<15470, 62322>>, <<42319, 62778>>,
    <<20750, 21119>>, <<39685, 26764>>, <<8067, 55723>>, <<23520, 52505>>
  >>

Zeros(n) == [i \in 1..n |-> 0]

\* big-endian bytes of the 64-bit message length in bits (lengths < 2^28)
LengthBytes(n) ==
  LET bits == 8 * n
  IN  <<0, 0, 0, 0, (bits \div 16777216) % 256, (bits \div 65536) % 256,
        (bits \div 256) % 256, bits % 256>>

Sha256Pad(msg) ==
  LET n == Len(msg)
      z == (119 - (n % 64)) % 64
  IN  msg \o <<128>> \o Zeros(z) \o LengthBytes(n)

\* the 16 big-endian words of the block starting after byte offset off
BlockWords(bytes, off) ==
  [i \in 1..16 |->
     <<256 * bytes[off + 4 * i - 3] + bytes[off + 4 * i - 2],
       256 * bytes[off + 4 * i - 1] + bytes[off + 4 * i]>>]

SmallSigma0(x) == WXor3(RotR(x, 7), RotR(x, 18), ShR(x, 3))
SmallSigma1(x) == WXor3(RotR(x, 17), RotR(x, 19), ShR(x, 10))
BigSigma0(x) == WXor3(RotR(x, 2), RotR(x, 13), RotR(x, 22))
BigSigma1(x) == WXor3(RotR(x, 6), RotR(x, 11), RotR(x, 25))
Ch(e, f, g) == WXor(WAnd(e, f), WAnd(WNot(e), g))
Maj(a, b, c) == WXor3(WAnd(a, b), WAnd(a, c), WAnd(b, c))

RECURSIVE Schedule(_)
Schedule(w) ==
  IF Len(w) = 64 THEN w
  ELSE LET t == Len(w) + 1
           nw == WAdd(WAdd(SmallSigma1(w[t - 2]), w[t - 7]),
                      WAdd(SmallSigma0(w[t - 15]), w[t - 16]))
       IN  Schedule(Append(w, nw))

\* one round on the working variables s = <<a, b, c, d, e, f, g, h>>
Round(s, k, w) ==
  LET t1 == WAdd(WAdd(WAdd(s[8], BigSigma1(s[5])),
                      WAdd(Ch(s[5], s[6], s[7]), k)), w)
      t2 == WAdd(BigSigma0(s[1]), Maj(s[1], s[2], s[3]))
  IN  <<WAdd(t1, t2), s[1], s[2], s[3], WAdd(s[4], t1), s[5], s[6], s[7]>>

\* ss holds the working variables before round 1, 2, ..., Len(ss)
RECURSIVE Rounds(_, _)
Rounds(ss, w) ==
  LET t == Len(ss)
  IN  IF t = 65 THEN ss[65]
      ELSE Rounds(Append(ss, Round(ss[t], Sha256K[t], w[t])), w)

Compress256(h, block) ==
  LET s == Rounds(<<h>>, Schedule(block))
  IN  [i \in 1..8 |-> WAdd(h[i], s[i])]

RECURSIVE Sha256Blocks(_, _, _)
Sha256Blocks(h, bytes, off) ==
  IF off >= Len(bytes) THEN h
  ELSE Sha256Blocks(Compress256(h, BlockWords(bytes, off)), bytes, off + 64)

HexDigits ==
  <<"0", "1", "2", "3", "4", "5", "6", "7",
    "8", "9", "a", "b", "c", "d", "e", "f">>

Hex4(h) ==
  <<HexDigits[(h \div 4096) + 1], HexDigits[((h \div 256) % 16) + 1],
    HexDigits[((h \div 16) % 16) + 1], HexDigits[(h % 16) + 1]>>

RECURSIVE HexWords(_, _)
HexWords(ws, i) ==
  IF i > Len(ws) THEN <<>>
  ELSE Hex4(ws[i][1]) \o Hex4(ws[i][2]) \o HexWords(ws, i + 1)

Sha256Compute(data) == HexWords(Sha256Blocks(Sha256H0, Sha256Pad(data), 0), 1)

\* the digests of the payloads, computed once
Sha256Memo == [data \in Payloads |-> Sha256Compute(data)]

\* hashlib.sha256(data).hexdigest()
Sha256HexDigest(data) ==
  IF data \in DOMAIN Sha256Memo THEN Sha256Memo[data] ELSE Sha256Compute(data)


\* hashlib.sha256(net_data).hexdigest()[:12]
Fingerprint(data) == SubSeq(Sha256HexDigest(data), 1, 12)

(***************************************************************************)
(* zlib.crc32: CRC-32 (reflected polynomial EDB88320) of a byte sequence.  *)
(***************************************************************************)
CrcPoly == <<60856, 33568>>

RECURSIVE CrcBits(_, _)
CrcBits(crc, k) ==
  IF k = 0 THEN crc
  ELSE IF crc[2] % 2 = 1 THEN CrcBits(WXor(ShR(crc, 1), CrcPoly), k - 1)
       ELSE CrcBits(ShR(crc, 1), k - 1)

\* the loop over the bytes from data[st.i] on, st.crc being the register:
\* at most n bytes, the first half of them and then the rest
RECURSIVE CrcBytes(_, _, _)
CrcBytes(data, st, n) ==
  IF n = 0 \/ st.i > Len(data) THEN st
  ELSE IF n > 1
  THEN CrcBytes(data, CrcBytes(data, st, n \div 2), n - n \div 2)
  ELSE [crc |-> CrcBits(WXor(st.crc, <<0, data[st.i]>>), 8), i |-> st.i + 1]

Crc32Compute(data) ==
  WNot(CrcBytes(data, [crc |-> <<Half - 1, Half - 1>>, i |-> 1],
                Len(data)).crc)

\* the checksums of the payloads, computed once
Crc32Memo == [data \in Payloads |-> Crc32Compute(data)]

\* zlib.crc32(data)
Crc32(data) ==
  IF data \in DOMAIN Crc32Memo THEN Crc32Memo[data] ELSE Crc32Compute(data)

\* struct.pack("<I", w) for a word and "<H" for a 16-bit value
LE16(h) == <<h % 256, h \div 256>>
LE32(w) == LE16(w[2]) \o LE16(w[1])

(***************************************************************************)
(* Helpers for the sums of zlib.  A loop of zlib is an operator with the   *)
(* state st of the loop and a number n: it makes at most n turns of the    *)
(* loop from st, the first half of them and then the rest, which keeps the *)
(* evaluation of a long loop shallow; n is never less than the number of   *)
(* turns the loop makes.  What a function of zlib computes once and uses   *)
(* several times is computed by one operator and handed as a parameter to  *)
(* the operator that uses it.                                              *)
(***************************************************************************)
Min2(a, b) == IF a < b THEN a ELSE b
SetMin(S) == CHOOSE n \in S : \A m \in S : n <= m
SetMax(S) == CHOOSE n \in S : \A m \in S : m <= n

\* f[lo] + ... + f[hi]
RECURSIVE SumOver(_, _, _)
SumOver(f, lo, hi) ==
  IF lo > hi THEN 0
  ELSE IF lo = hi THEN f[lo]
  ELSE SumOver(f, lo, (lo + hi) \div 2)
         + SumOver(f, (lo + hi) \div 2 + 1, hi)

\* memo[key] where the table has the key, value otherwise
Lookup(memo, key, value) == IF key \in DOMAIN memo THEN memo[key] ELSE value

\* parts[lo] \o ... \o parts[hi]
RECURSIVE Concat(_, _, _)
Concat(parts, lo, hi) ==
  IF lo > hi THEN <<>>
  ELSE IF lo = hi THEN parts[lo]
  ELSE Concat(parts, lo, (lo + hi) \div 2)
         \o Concat(parts, (lo + hi) \div 2 + 1, hi)

(***************************************************************************)
(* zlib deflate as gzip.open(path, "xb") drives it: compression level 9    *)
(* (deflate_slow with good_length 32, max_lazy 258, nice_length 258,       *)
(* max_chain 4096), raw stream, memLevel 8, for inputs of fewer than       *)
(* LitBufSize - 1 bytes, which zlib emits as one final block.              *)
(***************************************************************************)
MinMatch == 3
MaxMatch == 258
GoodMatch == 32
MaxChain == 4096
TooFar == 4096
LitBufSize == 16384

\* window[i] at the 0-based position i; zlib zeroes the window past the input
Window(data, i) == IF i < Len(data) THEN data[i + 1] ELSE 0

\* UPDATE_HASH over window[i .. i+2] with hash_bits 15 and hash_shift 5
HashAt(data, i) ==
  Xor2(Xor2((Window(data, i) % 32) * 1024, Window(data, i + 1) * 32),
       Window(data, i + 2))

\* ins_h of every position at which INSERT_STRING runs
HashTable(data) == [i \in 1..(Len(data) - 2) |-> HashAt(data, i - 1)]

\* prev[q] on the hash chain of position s: the latest position before q
\* with the hash of s, 0 (NIL) if there is none or if it is position 0
Prev(hash, s, q) ==
  LET chain == {p \in 1..(q - 1) : hash[p + 1] = hash[s + 1]}
  IN  IF chain = {} THEN 0 ELSE SetMax(chain)

\* the comparison loop of longest_match: the bytes at 0 .. 2 are equal, the
\* result is the first index at which the strings differ, at most MAX_MATCH
MatchRun(data, s, q) ==
  LET differ == {len \in 3..(MaxMatch - 1) :
                   Window(data, s + len) # Window(data, q + len)}
  IN  IF differ = {} THEN MaxMatch ELSE SetMin(differ)

\* the do-while of longest_match(s, ...): st.cur is cur_match, st.chain
\* is chain_length, st.best and st.start are best_len and match_start,
\* st.nice tells that the loop was left for a match of nice_match bytes
RECURSIVE LongestMatchLoop(_, _, _, _, _)
LongestMatchLoop(data, hash, s, st, n) ==
  IF n = 0 \/ st.nice \/ st.cur = 0 \/ st.chain = 0 THEN st
  ELSE IF n > 1
  THEN LongestMatchLoop(data, hash, s,
         LongestMatchLoop(data, hash, s, st, n \div 2), n - n \div 2)
  ELSE
    LET q == st.cur
        skip == \/ Window(data, q + st.best) # Window(data, s + st.best)
                \/ Window(data, q + st.best - 1)
                     # Window(data, s + st.best - 1)
                \/ Window(data, q) # Window(data, s)
                \/ Window(data, q + 1) # Window(data, s + 1)
        len == MatchRun(data, s, q)
        longer == ~skip /\ len > st.best
    IN  [cur |-> Prev(hash, s, q), chain |-> st.chain - 1,
         best |-> IF longer THEN len ELSE st.best,
         start |-> IF longer THEN q ELSE st.start,
         nice |-> longer /\ len >= Min2(MaxMatch, Len(data) - s)]

\* longest_match(s, cur_match) with prev_length = best and match_start =
\* start on entry: best and start of the result are best_len and
\* match_start
LongestMatch(data, hash, s, cur_match, best, start) ==
  LongestMatchLoop(data, hash, s,
                   [cur |-> cur_match,
                    chain |-> IF best >= GoodMatch THEN MaxChain \div 4
                              ELSE MaxChain,
                    best |-> best, start |-> start, nice |-> FALSE],
                   MaxChain)

\* the second half of a turn of the loop of deflate_slow at strstart =
\* st.s, found being the match for this position: the match of the previous
\* position is tallied if the new one is no longer, otherwise the literal
\* before this position if there is one.  st.mlen and st.mstart are
\* match_length and match_start, st.avail is match_available; a symbol is
\* <<0, byte>> for a literal and <<distance, length - 3>> for a match
DeflateSlowTally(data, st, found) ==
  LET s == st.s
      len0 == Min2(found.best, Len(data) - s)
      len == IF len0 = MinMatch /\ s - found.start > TooFar
             THEN MinMatch - 1 ELSE len0
  IN  IF st.mlen >= MinMatch /\ len <= st.mlen
      THEN [s |-> s + st.mlen - 1, mlen |-> MinMatch - 1,
            mstart |-> found.start, avail |-> FALSE,
            syms |-> Append(st.syms, <<s - 1 - st.mstart, st.mlen - 3>>)]
      ELSE [s |-> s + 1, mlen |-> len, mstart |-> found.start,
            avail |-> TRUE,
            syms |-> IF st.avail
                     THEN Append(st.syms, <<0, Window(data, s - 1)>>)
                     ELSE st.syms]

\* one turn of the loop of deflate_slow at strstart = st.s: the longest
\* match is looked for if the hash chain of the position is not empty and
\* the previous match is shorter than max_lazy_match; without a search
\* match_length is MIN_MATCH - 1
DeflateSlowStep(data, hash, st) ==
  DeflateSlowTally(data, st,
    IF /\ Len(data) - st.s >= MinMatch
       /\ Prev(hash, st.s, st.s) # 0
       /\ st.mlen < MaxMatch
    THEN LongestMatch(data, hash, st.s, Prev(hash, st.s, st.s), st.mlen,
                      st.mstart)
    ELSE [best |-> MinMatch - 1, start |-> st.mstart])

\* the loop of deflate_slow, left when the lookahead is empty
RECURSIVE DeflateSlowLoop(_, _, _, _)
DeflateSlowLoop(data, hash, st, n) ==
  IF n = 0 \/ st.s >= Len(data) THEN st
  ELSE IF n > 1
  THEN DeflateSlowLoop(data, hash,
         DeflateSlowLoop(data, hash, st, n \div 2), n - n \div 2)
  ELSE DeflateSlowStep(data, hash, st)

\* deflate_slow over the whole input with flush = Z_FINISH: the symbols
\* tallied for the block
DeflateSlow(data) ==
  LET end == DeflateSlowLoop(data, HashTable(data),
                             [s |-> 0, mlen |-> MinMatch - 1, mstart |-> 0,
                              avail |-> FALSE, syms |-> <<>>], Len(data))
  IN  IF end.avail THEN Append(end.syms, <<0, Window(data, end.s - 1)>>)
      ELSE end.syms

(***************************************************************************)
(* trees.c: the code tables.                                               *)
(***************************************************************************)
ExtraLBits ==
  <<0, 0, 0, 0, 0, 0, 0, 0, 1, 1, 1, 1, 2, 2, 2, 2, 3, 3, 3, 3, 4, 4, 4, 4,
    5, 5, 5, 5, 0>>

ExtraDBits ==
  <<0, 0, 0, 0, 1, 1, 2, 2, 3, 3, 4, 4, 5, 5, 6, 6, 7, 7, 8, 8, 9, 9, 10,
    10, 11, 11, 12, 12, 13, 13>>

ExtraBlBits == <<0, 0, 0, 0, 0, 0, 0, 0, 0, 0, 0, 0, 0, 0, 0, 0, 2, 3, 7>>

BlOrder == <<16, 17, 18, 0, 8, 7, 9, 6, 10, 5, 11, 4, 12, 3, 13, 2, 14, 1, 15>>

\* base_length and base_dist as tr_static_init fills them
RECURSIVE BaseOf(_, _)
BaseOf(extra, code) ==
  IF code = 0 THEN 0
  ELSE BaseOf(extra, code - 1) + 2 ^ extra[code]

BaseLength == [c \in 1..29 |-> IF c = 29 THEN 0 ELSE BaseOf(ExtraLBits, c - 1)]

BaseDist == [c \in 1..30 |-> BaseOf(ExtraDBits, c - 1)]

\* _length_code[lc] for lc = length - 3; 258 has its own code
LengthCode(lc) ==
  IF lc = 255 THEN 28
  ELSE CHOOSE c \in 0..27 :
         /\ BaseLength[c + 1] <= lc
         /\ c = 27 \/ lc < BaseLength[c + 2]

\* d_code(dist) for dist = distance - 1
DCode(dist) ==
  CHOOSE c \in 0..29 :
    /\ BaseDist[c + 1] <= dist
    /\ c = 29 \/ dist < BaseDist[c + 2]

LCodes == 286
DCodes == 30
BlCodes == 19
EndBlock == 256
MaxBits == 15
MaxBlBits == 7

\* bit lengths of static_ltree and static_dtree
StaticLLens ==
  [n \in 1..288 |-> IF n <= 144 THEN 8 ELSE IF n <= 256 THEN 9
                    ELSE IF n <= 280 THEN 7 ELSE 8]

StaticDLens == [n \in 1..DCodes |-> 5]

\* dyn_ltree and dyn_dtree frequencies of a block, END_BLOCK counted once
LFreq(syms) ==
  [n \in 1..LCodes |->
     Cardinality({i \in 1..Len(syms) :
        IF syms[i][1] = 0 THEN syms[i][2] = n - 1
        ELSE LengthCode(syms[i][2]) + 257 = n - 1})
       + (IF n - 1 = EndBlock THEN 1 ELSE 0)]

DFreq(syms) ==
  [n \in 1..DCodes |->
     Cardinality({i \in 1..Len(syms) :
        syms[i][1] # 0 /\ DCode(syms[i][1] - 1) = n - 1})]

(***************************************************************************)
(* trees.c: build_tree.  Nodes are numbered from 0, node k is at index     *)
(* k + 1 of freq, depth and dad; the heap is 1-based as in zlib.           *)
(***************************************************************************)
Smaller(freq, depth, n, m) ==
  \/ freq[n + 1] < freq[m + 1]
  \/ freq[n + 1] = freq[m + 1] /\ depth[n + 1] <= depth[m + 1]

\* pqdownheap: sift node v down from the hole at position k
RECURSIVE PqDownHeap(_, _, _, _, _, _)
PqDownHeap(heap, len, freq, depth, k, v) ==
  IF 2 * k > len THEN [heap EXCEPT ![k] = v]
  ELSE LET j == IF 2 * k < len
                   /\ Smaller(freq, depth, heap[2 * k + 1], heap[2 * k])
                THEN 2 * k + 1 ELSE 2 * k
       IN  IF Smaller(freq, depth, v, heap[j]) THEN [heap EXCEPT ![k] = v]
           ELSE PqDownHeap([heap EXCEPT ![k] = heap[j]], len, freq, depth,
                           j, v)

\* for (n = heap_len/2; n >= 1; n--) pqdownheap(s, tree, n), from n = k
RECURSIVE HeapifyLoop(_, _, _, _, _, _)
HeapifyLoop(heap, len, freq, depth, k, n) ==
  IF n = 0 \/ k < 1 THEN heap
  ELSE IF n > 1
  THEN HeapifyLoop(HeapifyLoop(heap, len, freq, depth, k, n \div 2),
                   len, freq, depth, k - n \div 2, n - n \div 2)
  ELSE PqDownHeap(heap, len, freq, depth, k, heap[k])

\* one turn of the loop of build_tree that joins the two least frequent
\* nodes; st.order lists the nodes in the order they are stored at
\* heap[--heap_max]
CombineStep(st) ==
  LET n == st.heap[1]
      h1 == PqDownHeap(st.heap, st.len - 1, st.freq, st.depth, 1,
                       st.heap[st.len])
      m == h1[1]
      freq == Append(st.freq, st.freq[n + 1] + st.freq[m + 1])
      depth == Append(st.depth,
                      (IF st.depth[n + 1] >= st.depth[m + 1]
                       THEN st.depth[n + 1] ELSE st.depth[m + 1]) + 1)
  IN  [heap |-> PqDownHeap(h1, st.len - 1, freq, depth, 1, st.node),
       len |-> st.len - 1, freq |-> freq, depth |-> depth,
       dad |-> [st.dad EXCEPT ![n + 1] = st.node, ![m + 1] = st.node],
       node |-> st.node + 1, order |-> st.order \o <<n, m>>]

\* the do-while of build_tree, left when one node remains in the heap
RECURSIVE CombineLoop(_, _)
CombineLoop(st, n) ==
  IF n = 0 \/ st.len < 2 THEN st
  ELSE IF n > 1 THEN CombineLoop(CombineLoop(st, n \div 2), n - n \div 2)
  ELSE CombineStep(st)

\* gen_bitlen, first pass: lengths from the root down, cut at maxLength;
\* h runs over order from the node stored last but one to the first
RECURSIVE BitLensLoop(_, _, _, _, _)
BitLensLoop(order, dad, maxLength, st, n) ==
  IF n = 0 \/ st.h < 1 THEN st
  ELSE IF n > 1
  THEN BitLensLoop(order, dad, maxLength,
         BitLensLoop(order, dad, maxLength, st, n \div 2), n - n \div 2)
  ELSE
    LET node == order[st.h]
        bits == st.lens[dad[node + 1] + 1] + 1
    IN  [h |-> st.h - 1,
         lens |-> [st.lens EXCEPT ![node + 1] = Min2(bits, maxLength)],
         overflow |-> st.overflow + (IF bits > maxLength THEN 1 ELSE 0)]

\* gen_bitlen, the do-while that repairs bl_count after an overflow
RECURSIVE FixCounts(_, _, _)
FixCounts(count, maxLength, overflow) ==
  IF overflow <= 0 THEN count
  ELSE LET bits == SetMax({b \in 1..(maxLength - 1) : count[b] # 0})
           c1 == [count EXCEPT ![bits] = @ - 1]
           c2 == [c1 EXCEPT ![bits + 1] = @ + 2]
           c3 == [c2 EXCEPT ![maxLength] = @ - 1]
       IN  FixCounts(c3, maxLength, overflow - 2)

\* gen_bitlen, last pass: the leaves take the repaired lengths, the least
\* frequent ones the longest; h runs over order from the first node stored,
\* a turn passes to the next shorter length or to the next node
RECURSIVE ReassignLoop(_, _, _, _)
ReassignLoop(order, maxCode, st, n) ==
  IF n = 0 \/ st.bits = 0 THEN st
  ELSE IF n > 1
  THEN ReassignLoop(order, maxCode,
         ReassignLoop(order, maxCode, st, n \div 2), n - n \div 2)
  ELSE IF st.count[st.bits] = 0 THEN [st EXCEPT !.bits = @ - 1]
  ELSE IF order[st.h] > maxCode THEN [st EXCEPT !.h = @ + 1]
  ELSE [bits |-> st.bits, h |-> st.h + 1,
        count |-> [st.count EXCEPT ![st.bits] = @ - 1],
        lens |-> [st.lens EXCEPT ![order[st.h] + 1] = st.bits]]

\* build_tree, the start: the symbols in use in ascending order make the
\* heap, and codes of frequency 1 are forced in until there are two
TreeStart(freq0, elems) ==
  LET used == {n \in 0..(elems - 1) : freq0[n + 1] # 0}
      top == IF used = {} THEN -1 ELSE SetMax(used)
      forced == IF Cardinality(used) >= 2 THEN <<>>
                ELSE IF Cardinality(used) = 1
                THEN IF top < 2 THEN <<top + 1>> ELSE <<0>>
                ELSE <<0, 1>>
  IN  [heap |-> [i \in 1..Cardinality(used) |->
                   CHOOSE n \in used :
                     Cardinality({m \in used : m < n}) = i - 1] \o forced,
       freq |-> [n \in 1..elems |->
                   IF \E i \in 1..Len(forced) : forced[i] = n - 1 THEN 1
                   ELSE freq0[n]],
       max_code |-> IF forced # <<>> /\ top < 2 THEN forced[Len(forced)]
                    ELSE top,
       forced |-> Len(forced)]

\* gen_bitlen for the tree that the loop of build_tree left: the bit length
\* of every symbol
GenBitLen(start, tree, elems, maxLength) ==
  LET order == Append(tree.order, tree.heap[1])
      first == BitLensLoop(order, tree.dad, maxLength,
                           [h |-> Len(order) - 1,
                            lens |-> [n \in 1..(2 * elems) |-> 0],
                            overflow |-> 0], Len(order))
      count0 == [b \in 1..maxLength |->
                   Cardinality({n \in 0..start.max_code :
                      start.freq[n + 1] # 0 /\ first.lens[n + 1] = b})]
      lens == IF first.overflow = 0 THEN first.lens
              ELSE ReassignLoop(order, start.max_code,
                     [bits |-> maxLength, h |-> 1,
                      count |-> FixCounts(count0, maxLength, first.overflow),
                      lens |-> first.lens], maxLength + Len(order)).lens
  IN  [n \in 1..elems |->
         IF n - 1 <= start.max_code /\ start.freq[n] # 0 THEN lens[n] ELSE 0]

\* build_tree after its start: the heap is put in order, the nodes are
\* joined and the lengths generated
TreeOf(start, elems, maxLength) ==
  [lens |-> GenBitLen(start,
              CombineLoop([heap |-> HeapifyLoop(start.heap, Len(start.heap),
                                      start.freq, [n \in 1..elems |-> 0],
                                      Len(start.heap) \div 2,
                                      Len(start.heap) \div 2),
                           len |-> Len(start.heap), freq |-> start.freq,
                           depth |-> [n \in 1..elems |-> 0],
                           dad |-> [n \in 1..(2 * elems) |-> 0],
                           node |-> elems, order |-> <<>>],
                          Len(start.heap)),
              elems, maxLength),
   max_code |-> start.max_code,
   freq |-> start.freq,
   forced |-> start.forced]

\* build_tree for the frequencies freq0 of elems symbols: the bit length of
\* every symbol, max_code, the frequencies with the forced codes in and the
\* number of forced codes
BuildTree(freq0, elems, maxLength) ==
  TreeOf(TreeStart(freq0, elems), elems, maxLength)

\* gen_codes: the canonical code of symbol n among the lengths lens
GenCode(lens, n) ==
  LET RECURSIVE NextCode(_)
      NextCode(bits) ==
        IF bits <= 1 THEN 0
        ELSE 2 * (NextCode(bits - 1)
                    + Cardinality({m \in 1..Len(lens) : lens[m] = bits - 1}))
  IN  NextCode(lens[n + 1])
        + Cardinality({m \in 1..n : lens[m] = lens[n + 1]})

\* send_bits(value, length): the low bit first
SendBits(value, length) == [i \in 1..length |-> (value \div 2 ^ (i - 1)) % 2]

\* send_code(c, tree): the Code field holds the canonical code reversed
SendCode(c, lens) ==
  [i \in 1..lens[c + 1] |->
     (GenCode(lens, c) \div 2 ^ (lens[c + 1] - i)) % 2]

(***************************************************************************)
(* trees.c: scan_tree and send_tree.  The run-length items for the code    *)
(* lengths lens[0 .. max_code]: <<symbol, extra value, extra bits>>.       *)
(***************************************************************************)
SendTreeStep(lens, maxCode, st) ==
  LET curlen == lens[st.n + 1]
      nextlen == IF st.n = maxCode THEN 65535 ELSE lens[st.n + 2]
      count == st.count + 1
      out == IF count < st.min_count
             THEN st.items \o [k \in 1..count |-> <<curlen, 0, 0>>]
             ELSE IF curlen # 0
             THEN IF curlen # st.prevlen
                  THEN st.items \o <<<<curlen, 0, 0>>, <<16, count - 4, 2>>>>
                  ELSE Append(st.items, <<16, count - 3, 2>>)
             ELSE IF count <= 10 THEN Append(st.items, <<17, count - 3, 3>>)
             ELSE Append(st.items, <<18, count - 11, 7>>)
  IN  IF count < st.max_count /\ curlen = nextlen
      THEN [st EXCEPT !.n = @ + 1, !.count = count]
      ELSE [n |-> st.n + 1, prevlen |-> curlen, count |-> 0, items |-> out,
            max_count |-> IF nextlen = 0 THEN 138
                          ELSE IF curlen = nextlen THEN 6 ELSE 7,
            min_count |-> IF nextlen = 0 \/ curlen = nextlen THEN 3 ELSE 4]

\* for (n = 0; n <= max_code; n++)
RECURSIVE SendTreeLoop(_, _, _, _)
SendTreeLoop(lens, maxCode, st, n) ==
  IF n = 0 \/ st.n > maxCode THEN st
  ELSE IF n > 1
  THEN SendTreeLoop(lens, maxCode,
         SendTreeLoop(lens, maxCode, st, n \div 2), n - n \div 2)
  ELSE SendTreeStep(lens, maxCode, st)

SendTree(lens, maxCode) ==
  SendTreeLoop(lens, maxCode,
               [n |-> 0, prevlen |-> -1, count |-> 0, items |-> <<>>,
                max_count |-> IF lens[1] = 0 THEN 138 ELSE 7,
                min_count |-> IF lens[1] = 0 THEN 3 ELSE 4],
               maxCode + 1).items

\* compress_block: the symbols and END_BLOCK in the codes llens, dlens
CompressBlock(syms, llens, dlens) ==
  Concat([i \in 1..Len(syms) |->
            IF syms[i][1] = 0 THEN SendCode(syms[i][2], llens)
            ELSE LET lcode == LengthCode(syms[i][2])
                     dcode == DCode(syms[i][1] - 1)
                 IN  SendCode(lcode + 257, llens)
                       \o SendBits(syms[i][2] - BaseLength[lcode + 1],
                                   ExtraLBits[lcode + 1])
                       \o SendCode(dcode, dlens)
                       \o SendBits(syms[i][1] - 1 - BaseDist[dcode + 1],
                                   ExtraDBits[dcode + 1])],
         1, Len(syms)) \o SendCode(EndBlock, llens)

\* the bits of a block in the code lens: the sum of freq[n] * (lens[n] +
\* extra bits of n), where the symbols above base have extra bits
Cost(freq, lens, extra, base) ==
  SumOver([n \in 1..Len(freq) |->
             freq[n] * (lens[n] + (IF n > base THEN extra[n - base] ELSE 0))],
          1, Len(freq))

\* bi_windup and the bytes of the pending buffer: eight bits a byte, low
\* bit first, the last byte filled with zero bits
PackBits(bits) ==
  [k \in 1..((Len(bits) + 7) \div 8) |->
     SumOver([i \in 1..8 |->
                IF 8 * (k - 1) + i > Len(bits) THEN 0
                ELSE bits[8 * (k - 1) + i] * 2 ^ (i - 1)], 1, 8)]

\* build_bl_tree, the end: the items of scan_tree, the tree bl of the code
\* length codes and max_blindex
BlTree(items, bl) ==
  LET index == {i \in 3..(BlCodes - 1) : bl.lens[BlOrder[i + 1] + 1] # 0}
  IN  [items |-> items, lens |-> bl.lens, freq |-> bl.freq,
       forced |-> bl.forced,
       max_blindex |-> IF index = {} THEN 3 ELSE SetMax(index)]

\* build_bl_tree for the items of scan_tree over both trees
BuildBlTree(items) ==
  BlTree(items,
         BuildTree([n \in 1..BlCodes |->
                      Cardinality({i \in 1..Len(items) :
                                     items[i][1] = n - 1})],
                   BlCodes, MaxBlBits))

\* _tr_flush_block for the last block once the trees l, d and bl are
\* built: stored, static or dynamic, whichever zlib finds shortest
FlushBlock(data, syms, l, d, bl) ==
  LET opt_len == Cost(l.freq, l.lens, ExtraLBits, 257) - l.forced
                   + Cost(d.freq, d.lens, ExtraDBits, 0) - d.forced
                   + Cost(bl.freq, bl.lens, ExtraBlBits, 0) - bl.forced
                   + 3 * (bl.max_blindex + 1) + 5 + 5 + 4
      static_len == Cost(LFreq(syms), StaticLLens, ExtraLBits, 257)
                      + Cost(DFreq(syms), StaticDLens, ExtraDBits, 0)
      static_lenb == (static_len + 3 + 7) \div 8
      opt_lenb == Min2((opt_len + 3 + 7) \div 8, static_lenb)
  IN  IF Len(data) + 4 <= opt_lenb
      THEN <<1, Len(data) % 256, Len(data) \div 256,
             255 - (Len(data) % 256), 255 - (Len(data) \div 256)>> \o data
      ELSE IF static_lenb = opt_lenb
      THEN PackBits(SendBits(3, 3)
                      \o CompressBlock(syms, StaticLLens, StaticDLens))
      ELSE PackBits(
             SendBits(5, 3)
               \o SendBits(l.max_code + 1 - 257, 5)
               \o SendBits(d.max_code + 1 - 1, 5)
               \o SendBits(bl.max_blindex + 1 - 4, 4)
               \o Concat([rank \in 1..(bl.max_blindex + 1) |->
                            SendBits(bl.lens[BlOrder[rank] + 1], 3)],
                         1, bl.max_blindex + 1)
               \o Concat([i \in 1..Len(bl.items) |->
                            SendCode(bl.items[i][1], bl.lens)
                              \o SendBits(bl.items[i][2], bl.items[i][3])],
                         1, Len(bl.items))
               \o CompressBlock(syms, l.lens, d.lens))

\* _tr_flush_block once the literal and the distance tree are built
FlushTrees(data, syms, l, d) ==
  FlushBlock(data, syms, l, d,
             BuildBlTree(SendTree(l.lens, l.max_code)
                           \o SendTree(d.lens, d.max_code)))

\* _tr_flush_block for the last block
TrFlushBlock(data, syms) ==
  FlushTrees(data, syms, BuildTree(LFreq(syms), LCodes, MaxBits),
             BuildTree(DFreq(syms), DCodes, MaxBits))

\* zlib.compressobj(9, DEFLATED, -MAX_WBITS, DEF_MEM_LEVEL, 0): compress(data)
\* followed by flush()
DeflateCompute(data) == TrFlushBlock(data, DeflateSlow(data))

\* the streams of the payloads, computed once
DeflateMemo == [data \in Payloads |-> DeflateCompute(data)]

Deflate(data) == Lookup(DeflateMemo, data, DeflateCompute(data))

(***************************************************************************)
(* zlib inflate of a raw deflate stream, as zlib.decompressobj(wbits =     *)
(* -MAX_WBITS).decompress(bytes) runs it.  Offsets p are 0-based bit       *)
(* offsets into bytes.  The state st of inflate holds the offset p, the    *)
(* output out, the mode and the flag last of the block being read; mode    *)
(* BAD stands for zlib.error and for a stream that ends early (eof stays   *)
(* False).                                                                 *)
(***************************************************************************)
BitAt(bytes, p) == (bytes[p \div 8 + 1] \div 2 ^ (p % 8)) % 2

\* NEEDBITS(n) can be met
HasBits(bytes, p, n) == p + n <= 8 * Len(bytes)

\* BITS(n): n bits from offset p on, the low bit first
RECURSIVE Bits(_, _, _)
Bits(bytes, p, n) ==
  IF n = 0 THEN 0 ELSE BitAt(bytes, p) + 2 * Bits(bytes, p + 1, n - 1)

\* number of codes of length len, count[len] of inflate_table
CountLen(lens, len) == Cardinality({s \in 1..Len(lens) : lens[s] = len})

\* inflate_table's check of a set of code lengths: left after the last
\* length, -1 for an over-subscribed set
RECURSIVE Left(_, _, _)
Left(lens, len, left) ==
  IF len > 15 THEN left
  ELSE IF 2 * left < CountLen(lens, len) THEN -1
  ELSE Left(lens, len + 1, 2 * left - CountLen(lens, len))

\* inflate_table accepts the lengths: neither over-subscribed nor
\* incomplete, except that a literal/length or distance set may be empty or
\* a single code of one bit.  (For an empty code length code zlib reads
\* every length as 0 and then fails for the missing end-of-block code.)
ValidCode(lens, type) ==
  LET left == Left(lens, 1, 1)
  IN  /\ left >= 0
      /\ \/ left = 0
         \/ type # "CODES" /\ \A s \in 1..Len(lens) : lens[s] <= 1

\* one symbol decoded by the canonical code of lens from offset p: bits are
\* taken one at a time, code is the value of the len - 1 bits read so far,
\* first the first code of length len; sym = -1 for a code that is not
\* in the set and for a stream that ends
RECURSIVE DecodeSym(_, _, _, _, _, _)
DecodeSym(lens, bytes, p, len, code, first) ==
  IF len > 15 \/ ~HasBits(bytes, p, 1) THEN [sym |-> -1, next |-> p]
  ELSE LET c == code + BitAt(bytes, p)
           count == CountLen(lens, len)
       IN  IF c - count < first
           THEN [sym |-> (CHOOSE s \in 1..Len(lens) :
                            /\ lens[s] = len
                            /\ Cardinality({m \in 1..(s - 1) : lens[m] = len})
                                 = c - first) - 1,
                 next |-> p + 1]
           ELSE DecodeSym(lens, bytes, p + 1, len + 1, 2 * c,
                          2 * (first + count))

\* the copy of length bytes from dist bytes back, which may overlap
CopyMatch(out, dist, length) ==
  [i \in 1..(Len(out) + length) |->
     IF i <= Len(out) THEN out[i]
     ELSE out[Len(out) - dist + 1 + ((i - Len(out) - 1) % dist)]]

\* modes DIST .. MATCH: the length symbol l and the distance symbol d are
\* decoded, the extra bits of both are read and the match is copied
InflateDist(bytes, st, l, d) ==
  LET lcode == l.sym - 257
      lextra == ExtraLBits[lcode + 1]
      length == IF lcode = 28 THEN MaxMatch
                ELSE MinMatch + BaseLength[lcode + 1]
                       + Bits(bytes, l.next, lextra)
      dextra == ExtraDBits[d.sym + 1]
      dist == 1 + BaseDist[d.sym + 1] + Bits(bytes, d.next, dextra)
  IN  IF d.sym < 0 \/ d.sym >= DCodes THEN [st EXCEPT !.mode = "BAD"]
      ELSE IF ~HasBits(bytes, d.next, dextra) THEN [st EXCEPT !.mode = "BAD"]
      ELSE IF dist > Len(st.out) THEN [st EXCEPT !.mode = "BAD"]
      ELSE [st EXCEPT !.p = d.next + dextra,
                      !.out = CopyMatch(st.out, dist, length)]

\* mode LEN after the symbol l is decoded: a literal, the end of the block
\* (mode TYPE again) or a length, whose extra bits precede the distance
InflateLength(dlens, bytes, st, l) ==
  IF l.sym < 0 \/ l.sym >= LCodes THEN [st EXCEPT !.mode = "BAD"]
  ELSE IF l.sym < EndBlock
  THEN [st EXCEPT !.p = l.next, !.out = Append(st.out, l.sym)]
  ELSE IF l.sym = EndBlock THEN [st EXCEPT !.p = l.next, !.mode = "TYPE"]
  ELSE IF ~HasBits(bytes, l.next, ExtraLBits[l.sym - 257 + 1])
  THEN [st EXCEPT !.mode = "BAD"]
  ELSE InflateDist(bytes, st, l,
                   DecodeSym(dlens, bytes,
                             l.next + ExtraLBits[l.sym - 257 + 1], 1, 0, 0))

\* one symbol of a block in mode LEN; mode BAD for invalid data and for a
\* stream that ends
InflateSymbol(llens, dlens, bytes, st) ==
  InflateLength(dlens, bytes, st, DecodeSym(llens, bytes, st.p, 1, 0, 0))

\* the turns of inflate's loop in the modes LEN .. MATCH
RECURSIVE InflateCodesLoop(_, _, _, _, _)
InflateCodesLoop(llens, dlens, bytes, st, n) ==
  IF n = 0 \/ st.mode # "LEN" THEN st
  ELSE IF n > 1
  THEN InflateCodesLoop(llens, dlens, bytes,
         InflateCodesLoop(llens, dlens, bytes, st, n \div 2), n - n \div 2)
  ELSE InflateSymbol(llens, dlens, bytes, st)

\* modes LEN .. MATCH: the symbols of one block up to its end-of-block;
\* every symbol takes at least one bit
InflateCodes(llens, dlens, bytes, st) ==
  InflateCodesLoop(llens, dlens, bytes, [st EXCEPT !.mode = "LEN"],
                   8 * Len(bytes) + 1)

\* mode STORED: LEN, NLEN and LEN bytes from the next byte boundary
InflateStored(bytes, st) ==
  LET q == (st.p + 7) \div 8
      len == bytes[q + 1] + 256 * bytes[q + 2]
      nlen == bytes[q + 3] + 256 * bytes[q + 4]
  IN  IF Len(bytes) < q + 4 THEN [st EXCEPT !.mode = "BAD"]
      ELSE IF len + nlen # 65535 \/ Len(bytes) < q + 4 + len
      THEN [st EXCEPT !.mode = "BAD"]
      ELSE [st EXCEPT !.p = 8 * (q + 4 + len),
                      !.out = st.out \o SubSeq(bytes, q + 5, q + 4 + len)]

\* the distance table of inflate's fixedtables(): 32 codes of 5 bits, of
\* which 30 and 31 are invalid; its literal/length table has the lengths of
\* StaticLLens, of which 286 and 287 are invalid
FixedDLens == [n \in 1..32 |-> 5]

\* mode CODELENS after the code c is decoded: a length below 16 or a repeat
\* code with its extra bits
CodeLensSym(bytes, total, st, c) ==
  LET extra == IF c.sym = 16 THEN 2 ELSE IF c.sym = 17 THEN 3 ELSE 7
      copy == (IF c.sym = 18 THEN 11 ELSE 3) + Bits(bytes, c.next, extra)
      len == IF c.sym = 16 THEN st.lens[Len(st.lens)] ELSE 0
  IN  IF c.sym < 0 THEN [st EXCEPT !.ok = FALSE]
      ELSE IF c.sym < 16
      THEN [st EXCEPT !.p = c.next, !.lens = Append(st.lens, c.sym)]
      ELSE IF ~HasBits(bytes, c.next, extra) THEN [st EXCEPT !.ok = FALSE]
      ELSE IF c.sym = 16 /\ st.lens = <<>> THEN [st EXCEPT !.ok = FALSE]
      ELSE IF Len(st.lens) + copy > total THEN [st EXCEPT !.ok = FALSE]
      ELSE [st EXCEPT !.p = c.next + extra,
                      !.lens = st.lens \o [i \in 1..copy |-> len]]

\* one code of mode CODELENS, decoded with the code length code bllens
CodeLensStep(bllens, bytes, total, st) ==
  CodeLensSym(bytes, total, st, DecodeSym(bllens, bytes, st.p, 1, 0, 0))

\* while (state->have < state->nlen + state->ndist): the literal/length and
\* distance code lengths are read until there are total of them
RECURSIVE CodeLensLoop(_, _, _, _, _)
CodeLensLoop(bllens, bytes, total, st, n) ==
  IF n = 0 \/ ~st.ok \/ Len(st.lens) >= total THEN st
  ELSE IF n > 1
  THEN CodeLensLoop(bllens, bytes, total,
         CodeLensLoop(bllens, bytes, total, st, n \div 2), n - n \div 2)
  ELSE CodeLensStep(bllens, bytes, total, st)

\* the end of mode CODELENS, read being the code lengths read, and the
\* codes of the block
InflateTables(bytes, st, nlen, ndist, read) ==
  LET llens == SubSeq(read.lens, 1, nlen)
      dlens == SubSeq(read.lens, nlen + 1, nlen + ndist)
  IN  IF ~read.ok THEN [st EXCEPT !.mode = "BAD"]
      ELSE IF llens[EndBlock + 1] = 0 THEN [st EXCEPT !.mode = "BAD"]
      ELSE IF ~ValidCode(llens, "LENS") \/ ~ValidCode(dlens, "DISTS")
      THEN [st EXCEPT !.mode = "BAD"]
      ELSE InflateCodes(llens, dlens, bytes, [st EXCEPT !.p = read.p])

\* modes TABLE .. CODELENS and the codes of a dynamic block
InflateDynamic(bytes, st) ==
  IF ~HasBits(bytes, st.p, 14) THEN [st EXCEPT !.mode = "BAD"]
  ELSE
    LET nlen == Bits(bytes, st.p, 5) + 257
        ndist == Bits(bytes, st.p + 5, 5) + 1
        ncode == Bits(bytes, st.p + 10, 4) + 4
        rank(sym) == CHOOSE i \in 1..BlCodes : BlOrder[i] = sym
        bllens == [n \in 1..BlCodes |->
                     IF rank(n - 1) <= ncode
                     THEN Bits(bytes, st.p + 14 + 3 * (rank(n - 1) - 1), 3)
                     ELSE 0]
    IN  IF nlen > LCodes \/ ndist > DCodes THEN [st EXCEPT !.mode = "BAD"]
        ELSE IF ~HasBits(bytes, st.p + 14, 3 * ncode)
        THEN [st EXCEPT !.mode = "BAD"]
        ELSE IF ~ValidCode(bllens, "CODES") THEN [st EXCEPT !.mode = "BAD"]
        ELSE InflateTables(bytes, st, nlen, ndist,
               CodeLensLoop(bllens, bytes, nlen + ndist,
                            [p |-> st.p + 14 + 3 * ncode, lens |-> <<>>,
                             ok |-> TRUE], nlen + ndist))

\* mode TYPE: after the block marked last the rest of its last byte is
\* dropped and inflate is done; otherwise the header of a block is read and
\* then the block
InflateBlock(bytes, st) ==
  IF st.last THEN [st EXCEPT !.p = 8 * ((st.p + 7) \div 8), !.mode = "DONE"]
  ELSE IF ~HasBits(bytes, st.p, 3) THEN [st EXCEPT !.mode = "BAD"]
  ELSE
    LET type == Bits(bytes, st.p + 1, 2)
        block == [st EXCEPT !.p = st.p + 3, !.last = BitAt(bytes, st.p) = 1]
    IN  CASE type = 0 -> InflateStored(bytes, block)
          [] type = 1 -> InflateCodes(StaticLLens, FixedDLens, bytes, block)
          [] type = 2 -> InflateDynamic(bytes, block)
          [] OTHER -> [st EXCEPT !.mode = "BAD"]

\* the turns of inflate's loop in mode TYPE
RECURSIVE InflateLoop(_, _, _)
InflateLoop(bytes, st, n) ==
  IF n = 0 \/ st.mode # "TYPE" THEN st
  ELSE IF n > 1
  THEN InflateLoop(bytes, InflateLoop(bytes, st, n \div 2), n - n \div 2)
  ELSE InflateBlock(bytes, st)

\* block after block up to the end of the one marked last, every block
\* taking at least three bits: mode DONE at the end of the stream with p
\* the bits consumed (the bytes after them are unused_data), mode BAD for
\* an error
Inflate(bytes) ==
  InflateLoop(bytes,
              [p |-> 0, out |-> <<>>, mode |-> "TYPE", last |-> FALSE],
              8 * Len(bytes) + 1)

(***************************************************************************)
(* The gzip container.  gzip.open(path, "xb") makes GzipFile(path, "xb",   *)
(* compresslevel = 9): _write_gzip_header writes the magic, the method,    *)
(* FLG = FNAME, MTIME = int(time.time()), XFL = 2, OS = 255 and the base   *)
(* name without ".gz"; close() appends the flushed deflate stream, the     *)
(* CRC-32 and the size.                                                    *)
(***************************************************************************)
Latin1(c) ==
  CASE c = "\n" -> 10  [] c = "-" -> 45  [] c = "." -> 46
    [] c = "0" -> 48   [] c = "1" -> 49  [] c = "2" -> 50  [] c = "3" -> 51
    [] c = "4" -> 52   [] c = "5" -> 53  [] c = "6" -> 54  [] c = "7" -> 55
    [] c = "8" -> 56   [] c = "9" -> 57
    [] c = "a" -> 97   [] c = "b" -> 98  [] c = "c" -> 99  [] c = "d" -> 100
    [] c = "e" -> 101  [] c = "f" -> 102 [] c = "n" -> 110 [] c = "u" -> 117
    [] OTHER -> 63

\* mtime is the clock reading as a 32-bit word
GzipHeader(fname, mtime) ==
  <<31, 139, 8, 8>> \o LE32(mtime) \o <<2, 255>>
    \o [i \in 1..Len(fname) |-> Latin1(fname[i])] \o <<0>>

\* the CRC-32 and the size & 0xffffffff of the data
GzipTrailer(data) ==
  LE32(Crc32(data)) \o LE32(<<(Len(data) \div Half) % Half, Len(data) % Half>>)

\* the bytes on disk after f.write(data) and a clean close
GzipCompress(fname, data, mtime) ==
  GzipHeader(fname, mtime) \o Deflate(data) \o GzipTrailer(data)

\* the offset after a zero-terminated header field that starts at offset
\* pos: fp.read(1) until it returns b"\0" or nothing
SkipString(bytes, pos) ==
  LET nul == {i \in (pos + 1)..Len(bytes) : bytes[i] = 0}
  IN  IF nul = {} THEN Len(bytes) ELSE SetMin(nul)

\* flag & mask for a one-bit mask
FlagSet(flag, mask) == (flag \div mask) % 2 = 1

\* _read_gzip_header: the offset of the first byte after the header, -1
\* where it raises BadGzipFile or EOFError
ReadGzipHeader(bytes) ==
  IF Len(bytes) < 2 \/ bytes[1] # 31 \/ bytes[2] # 139 THEN -1
  ELSE IF Len(bytes) < 10 THEN -1
  ELSE IF bytes[3] # 8 THEN -1
  ELSE
    LET flag == bytes[4]
        extra == IF ~FlagSet(flag, 4) THEN 10
                 ELSE IF Len(bytes) < 12 THEN -1
                 ELSE IF Len(bytes) < 12 + bytes[11] + 256 * bytes[12] THEN -1
                 ELSE 12 + bytes[11] + 256 * bytes[12]
        name == IF extra < 0 \/ ~FlagSet(flag, 8) THEN extra
                ELSE SkipString(bytes, extra)
        comment == IF name < 0 \/ ~FlagSet(flag, 16) THEN name
                   ELSE SkipString(bytes, name)
    IN  IF comment < 0 \/ ~FlagSet(flag, 2) THEN comment
        ELSE IF Len(bytes) < comment + 2 THEN -1
        ELSE comment + 2

DecompressError == [ok |-> FALSE, data |-> <<>>]

\* bytes.lstrip(b"\x00"): drop the zero padding that may follow a member
StripZeros(bytes) ==
  LET rest == {i \in 1..Len(bytes) : bytes[i] # 0}
  IN  IF rest = {} THEN <<>> ELSE SubSeq(bytes, SetMin(rest), Len(bytes))

\* the loop of gzip.decompress over the members of bytes, members holding
\* the data decompressed so far
RECURSIVE DecompressMembers(_, _)

\* a member after its header, body being the bytes after the header and do
\* the end of inflate on them: the trailer is checked against the data and
\* the loop goes on after the padding
ReadMember(body, members, do) ==
  LET unused == SubSeq(body, do.p \div 8 + 1, Len(body))
  IN  IF do.mode # "DONE" \/ Len(unused) < 8 THEN DecompressError
      ELSE IF SubSeq(unused, 1, 8) # GzipTrailer(do.out) THEN DecompressError
      ELSE DecompressMembers(StripZeros(SubSeq(unused, 9, Len(unused))),
                             members \o do.out)

\* a member whose header ends at offset start
MemberAt(bytes, members, start) ==
  IF start < 0 THEN DecompressError
  ELSE ReadMember(SubSeq(bytes, start + 1, Len(bytes)), members,
                  Inflate(SubSeq(bytes, start + 1, Len(bytes))))

DecompressMembers(bytes, members) ==
  IF bytes = <<>> THEN [ok |-> TRUE, data |-> members]
  ELSE MemberAt(bytes, members, ReadGzipHeader(bytes))

(***************************************************************************)
(* Inputs.                                                                 *)
(***************************************************************************)
\* number of upload requests in one behaviour
MaxReq == 3

Reqs == 1..MaxReq

\* number of failures the environment injects in one behaviour
MaxFaults == 1

\* readings of int(time.time()) when a file is opened, as 32-bit words
Clock == {<<0, 0>>, <<0, 1>>}

HexSet == {HexDigits[i] : i \in 1..16}

NamePrefix == <<"n", "n", "-">>
NameSuffix == <<".", "n", "n", "u", "e">>

\* the name under which payload data is expected: nn-<sha256[:12]>.nnue
NameOf(data) == NamePrefix \o Fingerprint(data) \o NameSuffix

\* "invalid_filename.pattern", the malformed name of the test suite
InvalidFilename ==
  <<"i", "n", "v", "a", "l", "i", "d", "_", "f", "i", "l", "e", "n", "a",
    "m", "e", ".", "p", "a", "t", "t", "e", "r", "n">>

\* upload.filename values submitted to the server: the two content names,
\* the empty name and a malformed one
Names == {NameOf(data) : data \in Payloads} \cup {<<>>, InvalidFilename}

(***************************************************************************)
(* re.match(r"^nn-[0-9a-f]{12}\.nnue$", net_file): "$" matches at the end  *)
(* of the string and also just before a newline that ends the string.      *)
(***************************************************************************)
PatternMatches(name) ==
  /\ \/ Len(name) = 20
     \/ Len(name) = 21 /\ name[21] = "\n"
  /\ SubSeq(name, 1, 3) = NamePrefix
  /\ \A i \in 4..15 : name[i] \in HexSet
  /\ SubSeq(name, 16, 20) = NameSuffix

\* the classification made by lines 26-43
Validate(name) ==
  IF name = <<>> THEN "MissingFilename"
  ELSE IF ~PatternMatches(name) THEN "InvalidNamePattern"
  ELSE "Valid"

\* the requests submitted, as <<filename, body>>: each content name with each
\* payload, and each refused name with the empty body, which is never read
Uploads ==
  {upload \in Names \X Payloads :
     Validate(upload[1]) = "Valid" \/ upload[2] = <<>>}

\* net_file_gz = nn_dir / f"{net_file}.gz"
PathOf(name) == name \o <<".", "g", "z">>

\* what a write of stream leaves in a file when it ends at any byte at
\* least short bytes before the end of stream
Prefixes(stream, short) ==
  {SubSeq(stream, 1, k) : k \in 0..(Len(stream) - short)}

\* every content a file of the store can have: a prefix of the gzip stream
\* of a payload or of the empty byte string under a valid name
FileContents ==
  UNION {Prefixes(GzipCompress(name, data, mtime), 0) :
         name \in {n \in Names : Validate(n) = "Valid"},
         data \in Payloads \cup {<<>>}, mtime \in Clock}

\* what gzip.decompress makes of these contents, computed once
DecompressMemo ==
  [bytes \in FileContents |-> DecompressMembers(bytes, <<>>)]

\* gzip.decompress(bytes): ok = FALSE stands for BadGzipFile, EOFError and
\* zlib.error; an empty input decompresses to the empty byte string
GzipDecompress(bytes) ==
  Lookup(DecompressMemo, bytes, DecompressMembers(bytes, <<>>))

\* the slice taken one character too far to the right
EmbeddedHashShifted(name) == SubSeq(name, 5, 16)

\* net_file[3:15]
EmbeddedHash(name) == SubSeq(name, 4, 15)

(***************************************************************************)
(* State.                                                                  *)
(***************************************************************************)
VARIABLES
  pc,        \* position of each request in create_upload_net
  net_file,  \* upload.filename of each request
  payload,   \* the bytes upload.read() yields for each request
  consumed,  \* whether the request has called upload.read()
  outcome,   \* how the request ended, "none" while it has not
  response,  \* status code and detail sent back, status 0 while unanswered
  store,     \* the nn directory: path |-> [inode, data] for existing files
  faults     \* number of failures injected so far

vars ==
  <<pc, net_file, payload, consumed, outcome, response, store, faults>>

Exists(path) == path \in DOMAIN store

\* Path.unlink on an existing path
Unlink(path) == [q \in DOMAIN store \ {path} |-> store[q]]

\* the request's own file object writes to the inode it created; when that
\* inode is no longer linked at the path the bytes are not visible there
WriteThrough(r, path, bytes) ==
  IF Exists(path) /\ store[path].inode = r
  THEN [store EXCEPT ![path].data = bytes]
  ELSE store

\* an f-string with net_file in it: the literal text around the name
Detail(before, name, after) == <<<<before>>, name, <<after>>>>

\* the status and detail raised by lines 26-43 for a name that is refused
BadNameStatus == 400

BadNameDetail(name) ==
  IF name = <<>> THEN <<<<"No filename provided in the upload">>>>
  ELSE Detail("Filename ", name,
              " does not match expected pattern (nn-[0-9a-f]{12}.nnue)")

\* the request leaves the handler: by raise HTTPException(status_code=code,
\* detail=text), or by the return of line 91
Finish(r, result, code, text) ==
  /\ pc' = [pc EXCEPT ![r] = "done"]
  /\ outcome' = [outcome EXCEPT ![r] = result]
  /\ response' = [response EXCEPT ![r] = [status |-> code, detail |-> text]]

\* the environment makes one more operation fail
Inject ==
  /\ faults < MaxFaults
  /\ faults' = faults + 1

\* a cleanup unlink may fail after the failure that led to it
InjectUnlink ==
  /\ faults < MaxFaults + 1
  /\ faults' = faults + 1

Init ==
  /\ pc = [r \in Reqs |-> "idle"]
  /\ net_file = [r \in Reqs |-> <<>>]
  /\ payload = [r \in Reqs |-> <<>>]
  /\ consumed = [r \in Reqs |-> FALSE]
  /\ outcome = [r \in Reqs |-> "none"]
  /\ response = [r \in Reqs |-> [status |-> 0, detail |-> <<>>]]
  /\ store = <<>>
  /\ faults = 0

(***************************************************************************)
(* Steps of create_upload_net.                                             *)
(***************************************************************************)
\* the target file is created before the name is checked
ReceiveCreateFirst(r, name, data) ==
  /\ pc[r] = "idle"
  /\ \A q \in 1..(r - 1) : pc[q] # "idle"
  /\ net_file' = [net_file EXCEPT ![r] = name]
  /\ payload' = [payload EXCEPT ![r] = data]
  /\ store' = (PathOf(name) :> [inode |-> r, data |-> <<>>]) @@ store
  /\ IF Validate(name) = "Valid"
     THEN /\ pc' = [pc EXCEPT ![r] = "open"]
          /\ UNCHANGED <<outcome, response>>
     ELSE Finish(r, Validate(name), BadNameStatus, BadNameDetail(name))
  /\ UNCHANGED <<consumed, faults>>

\* lines 24-48: the request arrives with a filename and a payload and the
\* name is validated; requests are numbered in order of arrival
Receive(r, name, data) ==
  /\ pc[r] = "idle"
  /\ \A q \in 1..(r - 1) : pc[q] # "idle"
  /\ net_file' = [net_file EXCEPT ![r] = name]
  /\ payload' = [payload EXCEPT ![r] = data]
  /\ IF Validate(name) = "Valid"
     THEN /\ pc' = [pc EXCEPT ![r] = "open"]
          /\ UNCHANGED <<outcome, response>>
     ELSE Finish(r, Validate(name), BadNameStatus, BadNameDetail(name))
  /\ UNCHANGED <<consumed, store, faults>>

\* line 47: nn_dir.mkdir(exist_ok=True) raises for a request whose name is
\* valid (a regular file stands in the place of the directory, or the
\* directory cannot be made); the call is outside every try, so the
\* exception leaves create_upload_net: the payload is not read, no file is
\* touched and the server answers 500
MkdirFault(r, name, data) ==
  /\ pc[r] = "idle"
  /\ \A q \in 1..(r - 1) : pc[q] # "idle"
  /\ Validate(name) = "Valid"
  /\ Inject
  /\ net_file' = [net_file EXCEPT ![r] = name]
  /\ payload' = [payload EXCEPT ![r] = data]
  /\ Finish(r, "Unhandled", 500, <<<<"Internal Server Error">>>>)
  /\ UNCHANGED <<consumed, store>>

\* the file opened in mode "wb": an existing file is truncated and taken over
OpenOverwrite(r) ==
  /\ pc[r] = "open"
  /\ pc' = [pc EXCEPT ![r] = "write"]
  /\ store' = [q \in DOMAIN store \cup {PathOf(net_file[r])} |->
                 IF q = PathOf(net_file[r])
                 THEN [inode |-> r, data |-> <<>>] ELSE store[q]]
  /\ UNCHANGED <<net_file, payload, consumed, outcome, response, faults>>

\* the existing file is answered as a bad request
OpenConflictBadRequest(r) ==
  /\ pc[r] = "open"
  /\ IF Exists(PathOf(net_file[r]))
     THEN /\ Finish(r, "AlreadyExists", 400,
                    Detail("File ", net_file[r], " already uploaded"))
          /\ store' = store
     ELSE /\ pc' = [pc EXCEPT ![r] = "write"]
          /\ UNCHANGED <<outcome, response>>
          /\ store' = (PathOf(net_file[r]) :> [inode |-> r, data |-> <<>>])
                        @@ store
  /\ UNCHANGED <<net_file, payload, consumed, faults>>

\* the conflict handler removes the file it found
OpenConflictUnlink(r) ==
  /\ pc[r] = "open"
  /\ IF Exists(PathOf(net_file[r]))
     THEN /\ Finish(r, "AlreadyExists", 409,
                    Detail("File ", net_file[r], " already uploaded"))
          /\ store' = Unlink(PathOf(net_file[r]))
     ELSE /\ pc' = [pc EXCEPT ![r] = "write"]
          /\ UNCHANGED <<outcome, response>>
          /\ store' = (PathOf(net_file[r]) :> [inode |-> r, data |-> <<>>])
                        @@ store
  /\ UNCHANGED <<net_file, payload, consumed, faults>>

\* line 51: gzip.open(net_file_gz, "xb"); FileExistsError is answered 409
\* by lines 53-59
Open(r) ==
  /\ pc[r] = "open"
  /\ IF Exists(PathOf(net_file[r]))
     THEN /\ Finish(r, "AlreadyExists", 409,
                    Detail("File ", net_file[r], " already uploaded"))
          /\ store' = store
     ELSE /\ pc' = [pc EXCEPT ![r] = "write"]
          /\ UNCHANGED <<outcome, response>>
          /\ store' = (PathOf(net_file[r]) :> [inode |-> r, data |-> <<>>])
                        @@ store
  /\ UNCHANGED <<net_file, payload, consumed, faults>>

\* line 51 raising anything but FileExistsError (as the mocked gzip.open of
\* test_upload_failed_write): control enters the handler of line 60
OpenFault(r) ==
  /\ pc[r] = "open"
  /\ Inject
  /\ pc' = [pc EXCEPT ![r] = "write_failed"]
  /\ UNCHANGED <<net_file, payload, consumed, outcome, response, store>>

\* line 52 and the end of the with block: the payload is read and
\* compressed; the header, which holds the clock reading mtime taken when
\* the file was opened, the deflate stream and the trailer reach the file
\* together when it is closed
Write(r) ==
  /\ pc[r] = "write"
  /\ consumed' = [consumed EXCEPT ![r] = TRUE]
  /\ \E mtime \in Clock :
       store' = WriteThrough(r, PathOf(net_file[r]),
                             GzipCompress(net_file[r], payload[r], mtime))
  /\ pc' = [pc EXCEPT ![r] = "read"]
  /\ UNCHANGED <<net_file, payload, outcome, response, faults>>

\* line 52: upload.read() raises exc; leaving the with block closes the
\* gzip file, which then holds the stream of the empty byte string.  An
\* Exception enters the handler of line 60; asyncio.CancelledError, which
\* is no Exception, leaves create_upload_net with no answer and the file
\* left in place.  Neither upload.read() nor f.write raises
\* FileExistsError: line 53 only ever catches the one of gzip.open (Open)
StreamFault(r, exc) ==
  /\ pc[r] = "write"
  /\ exc \in {"Exception", "CancelledError"}
  /\ Inject
  /\ consumed' = [consumed EXCEPT ![r] = TRUE]
  /\ \E mtime \in Clock :
       store' = WriteThrough(r, PathOf(net_file[r]),
                             GzipCompress(net_file[r], <<>>, mtime))
  /\ IF exc = "CancelledError"
     THEN /\ pc' = [pc EXCEPT ![r] = "done"]
          /\ outcome' = [outcome EXCEPT ![r] = "Unhandled"]
          /\ UNCHANGED response
     ELSE /\ pc' = [pc EXCEPT ![r] = "write_failed"]
          /\ UNCHANGED <<outcome, response>>
  /\ UNCHANGED <<net_file, payload>>

\* line 52: the write of the stream at the close of the file fails after
\* some of its bytes, at any byte, reached the file
WriteFault(r) ==
  /\ pc[r] = "write"
  /\ Inject
  /\ consumed' = [consumed EXCEPT ![r] = TRUE]
  /\ \E mtime \in Clock :
       \E part \in Prefixes(GzipCompress(net_file[r], payload[r], mtime), 1) :
         store' = WriteThrough(r, PathOf(net_file[r]), part)
  /\ pc' = [pc EXCEPT ![r] = "write_failed"]
  /\ UNCHANGED <<net_file, payload, outcome, response>>

\* lines 61-67: net_file_gz.unlink(missing_ok=True) removes the file or
\* finds none, then status 500; or the unlink raises (PermissionError, an
\* I/O error), whatever is at the path stays and the exception leaves the
\* handler before line 64, create_upload_net ending with it unhandled
CleanupWrite(r) ==
  /\ pc[r] = "write_failed"
  /\ \/ /\ store' = Unlink(PathOf(net_file[r]))
        /\ Finish(r, "WriteFailure", 500,
                  Detail("Failed to write file ", net_file[r], ""))
        /\ UNCHANGED faults
     \/ /\ InjectUnlink
        /\ store' = store
        /\ Finish(r, "Unhandled", 500, <<<<"Internal Server Error">>>>)
  /\ UNCHANGED <<net_file, payload, consumed>>

\* the file is read back and decompressed but the hash is not compared
ReadBackNoHashCheck(r) ==
  /\ pc[r] = "read"
  /\ LET path == PathOf(net_file[r])
         net_data == IF Exists(path) THEN GzipDecompress(store[path].data)
                     ELSE DecompressError
     IN  IF ~net_data.ok
         THEN /\ pc' = [pc EXCEPT ![r] = "read_failed"]
              /\ UNCHANGED <<outcome, response>>
         ELSE Finish(r, "Committed", 201, <<<<"File uploaded successfully">>>>)
  /\ UNCHANGED <<net_file, payload, consumed, store, faults>>

\* lines 70, 80, 82 and 91: read the file back, decompress it, compare the
\* hash prefix with the one in the name and answer 201 when they agree
ReadBack(r) ==
  /\ pc[r] = "read"
  /\ \E net_data \in {IF Exists(PathOf(net_file[r]))
                        THEN GzipDecompress(store[PathOf(net_file[r])].data)
                        ELSE DecompressError} :
         IF ~net_data.ok
         THEN /\ pc' = [pc EXCEPT ![r] = "read_failed"]
              /\ UNCHANGED <<outcome, response>>
         ELSE IF Fingerprint(net_data.data) # EmbeddedHash(net_file[r])
         THEN /\ pc' = [pc EXCEPT ![r] = "hash_failed"]
              /\ UNCHANGED <<outcome, response>>
         ELSE Finish(r, "Committed", 201, <<<<"File uploaded successfully">>>>)
  /\ UNCHANGED <<net_file, payload, consumed, store, faults>>

\* line 70 raising although the file is intact (an I/O error, or the mocked
\* gzip.decompress of test_upload_failed_read)
ReadFault(r) ==
  /\ pc[r] = "read"
  /\ Inject
  /\ pc' = [pc EXCEPT ![r] = "read_failed"]
  /\ UNCHANGED <<net_file, payload, consumed, outcome, response, store>>

\* net_file_gz.unlink() of lines 72 and 83: it removes the file and the
\* handler answers 500; or it raises with the file left in place
\* (PermissionError, an I/O error); or the path is gone and it raises
\* FileNotFoundError.  A raised exception leaves create_upload_net unhandled
UnlinkOrRaise(r, result, text) ==
  IF Exists(PathOf(net_file[r]))
  THEN \/ /\ store' = Unlink(PathOf(net_file[r]))
          /\ Finish(r, result, 500, Detail(text, net_file[r], ""))
          /\ UNCHANGED faults
       \/ /\ InjectUnlink
          /\ store' = store
          /\ Finish(r, "Unhandled", 500, <<<<"Internal Server Error">>>>)
  ELSE /\ store' = store
       /\ Finish(r, "Unhandled", 500, <<<<"Internal Server Error">>>>)
       /\ UNCHANGED faults

\* lines 72-78
CleanupRead(r) ==
  /\ pc[r] = "read_failed"
  /\ UnlinkOrRaise(r, "ReadFailure", "Failed to read uploaded file ")
  /\ UNCHANGED <<net_file, payload, consumed>>

\* lines 83-89
CleanupHash(r) ==
  /\ pc[r] = "hash_failed"
  /\ UnlinkOrRaise(r, "HashMismatch", "Invalid hash for uploaded file ")
  /\ UNCHANGED <<net_file, payload, consumed>>

Next ==
  \/ \E r \in Reqs, upload \in Uploads : Receive(r, upload[1], upload[2])
  \/ \E r \in Reqs, upload \in Uploads : MkdirFault(r, upload[1], upload[2])
  \/ \E r \in Reqs : Open(r)
  \/ \E r \in Reqs : OpenFault(r)
  \/ \E r \in Reqs : Write(r)
  \/ \E r \in Reqs : StreamFault(r, "Exception")
  \/ \E r \in Reqs : StreamFault(r, "CancelledError")
  \/ \E r \in Reqs : WriteFault(r)
  \/ \E r \in Reqs : ReadBack(r)
  \/ \E r \in Reqs : ReadFault(r)
  \/ \E r \in Reqs : CleanupRead(r)
  \/ \E r \in Reqs : CleanupHash(r)
  \/ \E r \in Reqs : CleanupWrite(r)

Spec == Init /\ [][Next]_vars

\* the same server when no operation of the environment fails, the unlink
\* of the hash check included
NextReliable ==
  \/ \E r \in Reqs, upload \in Uploads : Receive(r, upload[1], upload[2])
  \/ \E r \in Reqs : Open(r)
  \/ \E r \in Reqs : Write(r)
  \/ \E r \in Reqs : ReadBack(r)
  \/ \E r \in Reqs : CleanupHash(r) /\ faults' = faults

SpecReliable == Init /\ [][NextReliable]_vars

(***************************************************************************)
(* The validator alone: one request arrives with a name drawn from the     *)
(* variations of a well-formed name.                                       *)
(***************************************************************************)
BaseName == NameOf(<<97, 98, 99>>)

Alphabet ==
  {"n", "u", "e", "-", ".", "0", "9", "a", "f", "g", "A", "F", "\n", " "}

CandidateNames ==
  {SubSeq(BaseName, 1, k) : k \in 0..Len(BaseName)}
    \cup {[BaseName EXCEPT ![i] = c] : i \in 1..Len(BaseName), c \in Alphabet}
    \cup {BaseName \o <<c>> : c \in Alphabet}
    \cup {<<c>> \o BaseName : c \in Alphabet}
    \cup {BaseName \o <<"\n", c>> : c \in Alphabet}
    \cup {InvalidFilename}

NextValidator == \E name \in CandidateNames : Receive(1, name, <<>>)

SpecValidator == Init /\ [][NextValidator]_vars

(***************************************************************************)
(* Vocabulary of the properties.                                           *)
(***************************************************************************)
Done(r) == pc[r] = "done"

\* no upload request is in flight
Quiescent == \A r \in Reqs : pc[r] \in {"idle", "done"}

\* bytes is a complete gzip stream
IsGzipStream(bytes) == bytes # <<>> /\ GzipDecompress(bytes).ok

\* r is the only request received so far under its name
Sole(r) ==
  \A q \in Reqs \ {r} : pc[q] = "idle" \/ net_file[q] # net_file[r]

\* r has created its file and has neither committed nor cleaned up yet
OwnerInFlight(r) ==
  \/ pc[r] \in {"write", "read", "read_failed", "hash_failed"}
  \/ pc[r] = "write_failed" /\ consumed[r]

\* the file at the path of r's name is the one r created
OwnFileAt(r) ==
  /\ Exists(PathOf(net_file[r]))
  /\ store[PathOf(net_file[r])].inode = r

\* the file at path is the same, or as absent, after the step as before
Untouched(path) ==
  /\ (path \in DOMAIN store') = (path \in DOMAIN store)
  /\ path \in DOMAIN store => store'[path] = store[path]

\* the name is exactly nn- + 12 lowercase hex digits + .nnue
ExactName(name) ==
  /\ Len(name) = 20
  /\ SubSeq(name, 1, 3) = NamePrefix
  /\ \A i \in 4..15 : name[i] \in HexSet
  /\ SubSeq(name, 16, 20) = NameSuffix

(***************************************************************************)
(* C1.  Quiescent-store invariant: whenever no request is in flight, every *)
(* file in the store is a complete gzip stream whose decompressed bytes    *)
(* have the SHA-256 prefix that its name embeds, after any interleaving of *)
(* requests and failures.                                                  *)
(***************************************************************************)
C1_QuiescentStore ==
  Quiescent =>
    \A path \in DOMAIN store :
      /\ IsGzipStream(store[path].data)
      /\ Fingerprint(GzipDecompress(store[path].data).data)
           = SubSeq(path, 4, 15)

(***************************************************************************)
(* C2.  Round trip: when no operation fails, a request that is the only    *)
(* one made under its name, or that has read its payload B, has written B  *)
(* once it is done, and if the name is the one computed from B it ends     *)
(* Committed with a file at <name>.gz that decompresses to exactly B.      *)
(***************************************************************************)
C2_RoundTrip ==
  \A r \in Reqs :
    (/\ Done(r) /\ Validate(net_file[r]) = "Valid"
     /\ Sole(r) \/ consumed[r]) =>
      /\ consumed[r]
      /\ net_file[r] = NameOf(payload[r]) =>
           /\ outcome[r] = "Committed"
           /\ Exists(PathOf(net_file[r]))
           /\ IsGzipStream(store[PathOf(net_file[r])].data)
           /\ GzipDecompress(store[PathOf(net_file[r])].data).data
                = payload[r]

\* both payloads, the empty one included, committed under their names
C2_Witness ==
  \E r, q \in Reqs :
    /\ outcome[r] = "Committed" /\ Sole(r)
    /\ payload[r] = <<>> /\ net_file[r] = NameOf(<<>>)
    /\ outcome[q] = "Committed" /\ Sole(q)
    /\ payload[q] = <<97, 98, 99>> /\ net_file[q] = NameOf(<<97, 98, 99>>)

(***************************************************************************)
(* C3.  Mislabeled upload: when no operation fails, a request under a      *)
(* well-formed name that is the only one made under that name, or that has *)
(* read its payload, ends in HashMismatch if the hash digits of the name   *)
(* differ from the SHA-256 prefix of the payload, and at the moment it     *)
(* returns HashMismatch no file exists at <name>.gz.                       *)
(***************************************************************************)
C3_Mislabeled ==
  /\ [](\A r \in Reqs :
          (/\ Done(r) /\ Validate(net_file[r]) = "Valid"
           /\ Sole(r) \/ consumed[r]) =>
            /\ consumed[r]
            /\ Fingerprint(payload[r]) # EmbeddedHash(net_file[r]) =>
                 /\ outcome[r] = "HashMismatch"
                 /\ Sole(r) => ~Exists(PathOf(net_file[r])))
  /\ [][\A r \in Reqs :
          (outcome[r] # "HashMismatch" /\ outcome'[r] = "HashMismatch") =>
            ~(PathOf(net_file[r]) \in DOMAIN store')]_vars

\* a mislabeled upload has been rejected
C3_Witness ==
  \E r \in Reqs :
    /\ Done(r) /\ Sole(r) /\ consumed[r]
    /\ payload[r] = <<97, 98, 99>> /\ net_file[r] = NameOf(<<>>)
    /\ outcome[r] = "HashMismatch"
    /\ ~Exists(PathOf(net_file[r]))

(***************************************************************************)
(* C4.  Resubmission after commit: when no operation fails, once a request *)
(* has returned Committed under a name, every step leaves the file at      *)
(* <name>.gz in place with the same bytes, and every other request that    *)
(* attempts the create under that name afterwards returns the conflict.    *)
(***************************************************************************)
C4_Resubmission ==
  [][\A r \in Reqs :
       outcome[r] = "Committed" =>
         /\ Exists(PathOf(net_file[r]))
         /\ Untouched(PathOf(net_file[r]))
         /\ \A q \in Reqs \ {r} :
              (/\ net_file[q] = net_file[r]
               /\ pc[q] = "open" /\ pc'[q] # "open") =>
                outcome'[q] = "AlreadyExists"]_vars

\* a name committed once and then refused twice
C4_Witness ==
  \E r \in Reqs :
    /\ outcome[r] = "Committed"
    /\ \A q \in Reqs \ {r} :
         outcome[q] = "AlreadyExists" /\ net_file[q] = net_file[r]
    /\ IsGzipStream(store[PathOf(net_file[r])].data)

(***************************************************************************)
(* C5.  First writer wins: at most one request at a time is between its    *)
(* successful exclusive create of <name>.gz and its own commit or cleanup, *)
(* and a request that has not created the file at that path never changes  *)
(* or removes it.                                                          *)
(***************************************************************************)
C5_FirstWriterWins ==
  /\ [](\A r, q \in Reqs :
          (r # q /\ OwnerInFlight(r) /\ OwnerInFlight(q)) =>
            net_file[r] # net_file[q])
  /\ [][\A r \in Reqs :
          (/\ pc[r] # pc'[r] /\ pc[r] # "idle"
           /\ Exists(PathOf(net_file[r])) /\ ~OwnFileAt(r)) =>
            Untouched(PathOf(net_file[r]))]_vars

(***************************************************************************)
(* C6.  Write-once persistence: once some request has returned Committed   *)
(* for a name, the file <name>.gz exists with unchanged bytes in every     *)
(* later state, whatever other requests do and however they end.           *)
(***************************************************************************)
C6_WriteOnce ==
  [][\A r \in Reqs :
       (outcome[r] = "Committed" /\ Exists(PathOf(net_file[r]))) =>
         /\ PathOf(net_file[r]) \in DOMAIN store'
         /\ store'[PathOf(net_file[r])] = store[PathOf(net_file[r])]]_vars

(***************************************************************************)
(* C7.  Write-failure cleanup: when the open, the read of the upload       *)
(* stream or the write fails for another reason than the path existing,    *)
(* the request enters the write-failure handler, ends in WriteFailure, and *)
(* when the error is returned no file is left at <name>.gz; no file the    *)
(* request created is ever at that path afterwards.                        *)
(***************************************************************************)
C7_WriteFailureCleanup ==
  /\ [](\A r \in Reqs : outcome[r] = "WriteFailure" => ~OwnFileAt(r))
  /\ [][\A r \in Reqs :
          /\ (pc[r] \in {"open", "write"} /\ pc'[r] # pc[r]
                /\ faults' # faults) => pc'[r] = "write_failed"
          /\ (pc[r] = "write_failed" /\ pc'[r] # "write_failed") =>
               /\ pc'[r] = "done"
               /\ outcome'[r] = "WriteFailure"
               /\ ~(PathOf(net_file[r]) \in DOMAIN store')]_vars

(***************************************************************************)
(* C8.  Read-failure cleanup: a request whose read-back or decompression   *)
(* failed ends in ReadFailure, and the file at <name>.gz has been removed  *)
(* when the error is returned.                                             *)
(***************************************************************************)
C8_ReadFailureCleanup ==
  [][\A r \in Reqs :
       (pc[r] = "read_failed" /\ pc'[r] # "read_failed") =>
         /\ pc'[r] = "done"
         /\ outcome'[r] = "ReadFailure"
         /\ ~(PathOf(net_file[r]) \in DOMAIN store')]_vars

(***************************************************************************)
(* C9.  Rejection before any I/O: a request whose name is empty or does    *)
(* not match the pattern ends at once with the bad-name answer (400); the  *)
(* step leaves the store as it was and the payload stream is never read.   *)
(***************************************************************************)
C9_RejectBeforeIO ==
  /\ [](\A r \in Reqs :
          (pc[r] # "idle" /\ Validate(net_file[r]) # "Valid") =>
            /\ Done(r)
            /\ outcome[r] \in {"MissingFilename", "InvalidNamePattern"}
            /\ response[r].status = 400
            /\ ~consumed[r])
  /\ [][\A r \in Reqs :
          (pc[r] = "idle" /\ pc'[r] # "idle"
             /\ Validate(net_file'[r]) # "Valid") => store' = store]_vars

\* both kinds of bad name rejected while the store holds a committed file
C9_Witness ==
  /\ \E r \in Reqs : outcome[r] = "Committed" /\ OwnFileAt(r)
  /\ \E r \in Reqs : outcome[r] = "MissingFilename"
  /\ \E r \in Reqs : outcome[r] = "InvalidNamePattern"

(***************************************************************************)
(* C10.  Validator classification: the empty name gives MissingFilename,   *)
(* a non-empty name is accepted exactly when it is the 20-character string *)
(* nn- + 12 characters of 0-9a-f + .nnue, and every other non-empty name   *)
(* gives InvalidNamePattern.                                               *)
(***************************************************************************)
C10_Classification ==
  \A r \in Reqs :
    pc[r] # "idle" =>
      /\ net_file[r] = <<>> => outcome[r] = "MissingFilename"
      /\ (net_file[r] # <<>> /\ ExactName(net_file[r])) => pc[r] = "open"
      /\ (net_file[r] # <<>> /\ ~ExactName(net_file[r])) =>
           outcome[r] = "InvalidNamePattern"

(***************************************************************************)
(* C11.  Outcome taxonomy: a request that has returned ended in one of     *)
(* Committed, the bad-name rejection (missing or malformed name), the      *)
(* conflict, WriteFailure, ReadFailure or HashMismatch, also when the      *)
(* cleanup delete finds that the stored file has vanished.                 *)
(***************************************************************************)
C11_Taxonomy ==
  \A r \in Reqs :
    Done(r) =>
      outcome[r] \in {"Committed", "MissingFilename", "InvalidNamePattern",
                      "AlreadyExists", "WriteFailure", "ReadFailure",
                      "HashMismatch"}

(***************************************************************************)
(* C12.  Status mapping: the response of a request that has returned is    *)
(* fixed by its outcome: Committed gives 201 with the detail "File         *)
(* uploaded successfully", a missing or malformed name gives 400, the      *)
(* conflict gives 409, WriteFailure, ReadFailure and HashMismatch give     *)
(* 500; no response exists before the request returns, and 201 is sent     *)
(* only by the step that read the file back and found the hash of its      *)
(* decompressed bytes equal to the one in the name.                        *)
(***************************************************************************)
C12_StatusMapping ==
  /\ [](\A r \in Reqs :
          /\ ~Done(r) => response[r].status = 0
          /\ outcome[r] = "Committed" =>
               response[r] = [status |-> 201,
                              detail |-> <<<<"File uploaded successfully">>>>]
          /\ outcome[r] \in {"MissingFilename", "InvalidNamePattern"} =>
               response[r].status = 400
          /\ outcome[r] = "AlreadyExists" => response[r].status = 409
          /\ outcome[r] \in {"WriteFailure", "ReadFailure", "HashMismatch"} =>
               response[r].status = 500
          /\ response[r].status = 201 => outcome[r] = "Committed")
  /\ [][\A r \in Reqs :
          (response[r].status # 201 /\ response'[r].status = 201) =>
            /\ pc[r] = "read"
            /\ Exists(PathOf(net_file[r]))
            /\ GzipDecompress(store[PathOf(net_file[r])].data).ok
            /\ Fingerprint(GzipDecompress(store[PathOf(net_file[r])].data).data)
                 = EmbeddedHash(net_file[r])]_vars

\* a commit, a conflict and a failed read have all been answered, each
\* with its status and detail
C12_Witness ==
  /\ \E r \in Reqs :
       /\ outcome[r] = "Committed"
       /\ response[r] = [status |-> 201,
                         detail |-> <<<<"File uploaded successfully">>>>]
  /\ \E r \in Reqs :
       /\ outcome[r] = "AlreadyExists"
       /\ response[r] = [status |-> 409,
                         detail |-> Detail("File ", net_file[r],
                                           " already uploaded")]
  /\ \E r \in Reqs :
       /\ outcome[r] = "ReadFailure"
       /\ response[r] = [status |-> 500,
                         detail |-> Detail("Failed to read uploaded file ",
                                           net_file[r], "")]

(***************************************************************************)
(* C13.  Commit implies own-content correctness: a request that returned   *)
(* Committed uploaded bytes whose SHA-256 prefix equals the hash digits of *)
(* its name, in every interleaving with other requests on the same name.   *)
(***************************************************************************)
C13_OwnContent ==
  \A r \in Reqs :
    outcome[r] = "Committed" =>
      Fingerprint(payload[r]) = EmbeddedHash(net_file[r])

(***************************************************************************)
(* C14.  Conflict has no effect on the store: the step in which a request  *)
(* is answered with the conflict finds a file at its path that another     *)
(* request created and leaves every file of the store, that one included,  *)
(* exactly as it was; a request answered with the conflict has never read  *)
(* its payload and has created no file, and it takes no further step.      *)
(***************************************************************************)
C14_ConflictNoEffect ==
  /\ [](\A r \in Reqs :
          outcome[r] = "AlreadyExists" =>
            /\ Done(r)
            /\ ~consumed[r]
            /\ \A path \in DOMAIN store : store[path].inode # r)
  /\ [][\A r \in Reqs :
          /\ (outcome[r] # "AlreadyExists" /\ outcome'[r] = "AlreadyExists") =>
               /\ Exists(PathOf(net_file[r]))
               /\ ~OwnFileAt(r)
               /\ store' = store
          /\ outcome[r] = "AlreadyExists" =>
               /\ pc'[r] = pc[r]
               /\ outcome'[r] = outcome[r]]_vars

\* a request refused while the file at its path is still being verified by
\* the request that created it, next to a committed file
C14_Witness ==
  \E r, q, p \in Reqs :
    /\ pc[r] = "read" /\ OwnFileAt(r)
    /\ outcome[q] = "AlreadyExists" /\ net_file[q] = net_file[r]
    /\ outcome[p] = "Committed" /\ OwnFileAt(p)

\* the stage of a request: Validated from the accepted name until the file is
\* written, Written from then until the verdict, then the outcome it ended in
Stage(r) ==
  CASE pc[r] = "idle" -> "Received"
    [] pc[r] \in {"open", "write", "write_failed"} -> "Validated"
    [] pc[r] \in {"read", "read_failed", "hash_failed"} -> "Written"
    [] OTHER -> outcome[r]

\* forward moves, and from each stage the rejections of that stage
StageEdges ==
  {<<"Received", "Validated">>, <<"Validated", "Written">>,
   <<"Written", "Committed">>,
   <<"Received", "MissingFilename">>, <<"Received", "InvalidNamePattern">>,
   <<"Validated", "AlreadyExists">>, <<"Validated", "WriteFailure">>,
   <<"Written", "ReadFailure">>, <<"Written", "HashMismatch">>}

(***************************************************************************)
(* C15.  Linear per-request state machine: every step of a request either  *)
(* keeps its stage or moves it along Received, Validated, Written,         *)
(* Committed, or from a stage to a rejection of that stage (bad name from  *)
(* Received; conflict or WriteFailure from Validated; ReadFailure or       *)
(* HashMismatch from Written); nothing leaves a terminal outcome.          *)
(***************************************************************************)
C15_Linear ==
  [][\A r \in Reqs :
       Stage(r)' # Stage(r) => <<Stage(r), Stage(r)'>> \in StageEdges]_vars

(***************************************************************************)
(* C17.  Cleanup ownership: whenever a file leaves the store, the request  *)
(* taking that step is the one whose exclusive create made that file; no   *)
(* request deletes a file that another request created.                    *)
(***************************************************************************)
C17_CleanupOwnership ==
  [][\A path \in DOMAIN store :
       path \notin DOMAIN store' =>
         \E r \in Reqs : pc'[r] # pc[r] /\ store[path].inode = r]_vars

(***************************************************************************)
(* C18.  Progress for a correct upload under contention: when no operation *)
(* fails and a request carries the payload whose SHA-256 prefix is in its  *)
(* name, then once every request made under that name has returned, a file *)
(* is stored at <name>.gz whose decompressed bytes have that prefix; so a   *)
(* correct upload refused with the conflict is always made up for by a     *)
(* stored artifact.                                                        *)
(***************************************************************************)
C18_Progress ==
  \A r \in Reqs :
    (/\ pc[r] # "idle"
     /\ net_file[r] = NameOf(payload[r])
     /\ \A q \in Reqs :
          (pc[q] # "idle" /\ net_file[q] = net_file[r]) => Done(q)) =>
      /\ Exists(PathOf(net_file[r]))
      /\ IsGzipStream(store[PathOf(net_file[r])].data)
      /\ Fingerprint(GzipDecompress(store[PathOf(net_file[r])].data).data)
           = EmbeddedHash(net_file[r])

====
